---- MODULE Spec2Model ----
(***************************************************************************)
(* Control-law engine of selfdrive/controls/lib: the PID core (pid.py),    *)
(* the lateral controller (latcontrol_pid.py) and the longitudinal         *)
(* controller with its state machine (longcontrol.py).                     *)
(*                                                                         *)
(* Numbers.  The code computes in Python floats.  The model computes in    *)
(* fixed point: the real x is the integer x*S, products are rescaled by S  *)
(* and rounded down.  Every input below is a multiple of 1/S.  The PID      *)
(* core's integral term, which moves by hundredths of the error per        *)
(* update, is kept finer: the field i holds i * S * IFine.                 *)
(*                                                                         *)
(* Exceptions.  A call that raises leaves its name in exc; a constructor   *)
(* that raises leaves no object.                                           *)
(***************************************************************************)
EXTENDS Integers, Sequences, FiniteSets, TLC

VARIABLES
  np_bound,    \* whether the name np resolves in pid.py's globals (pid.py never imports it)
  exc,         \* exception raised by the last call: "none", "NameError", "TypeError"
  pid,         \* a stand-alone PIDController, or NoObj
  pid_call,    \* the last call made on pid: its name, arguments, return value, counters
  trans_call,  \* a call of long_control_state_trans: its arguments and its outcome
  lc,          \* a LongControl, or NoObj
  lc_call,     \* the last call made on lc: its name, arguments, outcome, counters
  lat,         \* a LatControlPID, or NoObj
  lat_call     \* the last call made on lat: its name, arguments, outcome, counters

vars == <<np_bound, exc, pid, pid_call, trans_call, lc, lc_call, lat, lat_call>>
lat_vars == <<lat, lat_call>>
pid_vars == <<pid, pid_call>>
long_vars == <<trans_call, lc, lc_call>>

\* ------------------------------------------------------------------ numbers
S == 10^3

Abs(x) == IF x < 0 THEN -x ELSE x
Min2(a, b) == IF a < b THEN a ELSE b
Max2(a, b) == IF a > b THEN a ELSE b

\* the integral term's extra resolution
IFine == 10^2

\* a*b of two fixed-point numbers
Mul(a, b) == (a * b) \div S

\* Python round(n/d) for d > 0: half to even
RoundDiv(n, d) ==
  LET q == n \div d
      r == n % d
  IN  IF 2 * r < d THEN q
      ELSE IF 2 * r > d THEN q + 1
      ELSE IF q % 2 = 0 THEN q ELSE q + 1

\* common.numpy_fast.clip
clip(x, lo, hi) == Max2(lo, Min2(hi, x))

\* common.numpy_fast.interp for a scalar x: piecewise linear over the
\* breakpoints xp, held at fp's end values outside them
RECURSIVE interp_hi(_, _, _)
interp_hi(x, xp, hi) ==
  IF hi < Len(xp) /\ x > xp[hi + 1] THEN interp_hi(x, xp, hi + 1) ELSE hi

interp(x, xp, fp) ==
  LET N  == Len(xp)
      hi == interp_hi(x, xp, 0)
  IN  IF hi = N THEN fp[N]
      ELSE IF hi = 0 THEN fp[1]
      ELSE ((x - xp[hi]) * (fp[hi + 1] - fp[hi])) \div (xp[hi + 1] - xp[hi]) + fp[hi]

\* np.exp(-1.0 / x) for x >= 1 (a real number, x not scaled), in units of 1/S^2:
\* the expansion 1 - 1/x + 1/(2 x^2), rounded down
DecayScale == S * S
exp_neg_inv(x) == DecayScale - DecayScale \div x + DecayScale \div (2 * x * x)

NoObj == [alive |-> FALSE]
NoCall == [op |-> "none", updates |-> 0, since_reset |-> 0]
NoTrans == [called |-> FALSE]
None == "None"

\* The value a name has in a frame of locals, or the NameError its lookup raises
Lookup(name, frame) ==
  IF name \in DOMAIN frame
  THEN [exc |-> "none", value |-> frame[name]]
  ELSE [exc |-> "NameError", value |-> None]

\* ------------------------------------------------------------------ pid.py
apply_deadzone_keeps_band(error, deadzone) ==
  IF error > deadzone THEN error - deadzone
  ELSE IF error < -deadzone THEN error + deadzone
  ELSE error

apply_deadzone(error, deadzone) ==
  IF error > deadzone THEN error - deadzone
  ELSE IF error < -deadzone THEN error + deadzone
  ELSE 0

\* A gain argument is a Number or a pair (breakpoints, values)
Num(k) == [number |-> TRUE, k |-> k]
Tab(bp, v) == [number |-> FALSE, bp |-> bp, v |-> v]

\* __init__, lines 21-26: a Number k becomes the table [[0], [k]]
gain_table(k) == IF k.number THEN <<(<<0>>), (<<k.k>>)>> ELSE <<k.bp, k.v>>

PID_reset_keeps_i(c) ==
  [c EXCEPT !.p = 0, !.f = 0, !.control = 0, !.errors = <<>>]

PID_reset(c) ==
  [c EXCEPT !.p = 0, !.i = 0, !.f = 0, !.control = 0, !.errors = <<>>]

\* __init__'s defaults for rate and i_decay_tau
DefaultRate == 100
DefaultDecayTau == 100

\* The object __init__ builds; rate is a plain integer, derivative_period and
\* i_decay_tau (an integer) are as given to the constructor
PID_init(k_p, k_i, k_d, k_f, pos_limit, neg_limit, rate, i_decay_tau, derivative_period) ==
  PID_reset(
    [alive          |-> TRUE,
     k_p            |-> gain_table(k_p),
     k_i            |-> gain_table(k_i),
     k_d            |-> gain_table(k_d),
     k_f            |-> k_f,
     i_decay_factor |-> exp_neg_inv(rate * i_decay_tau),
     pos_limit      |-> pos_limit,
     neg_limit      |-> neg_limit,
     i_unwind_rate  |-> S \div rate,
     i_rate         |-> S \div rate,
     d_period       |-> RoundDiv(derivative_period * rate, S),
     speed          |-> 0,
     p |-> 0, i |-> 0, f |-> 0, control |-> 0, errors |-> <<>>])

\* the properties k_p, k_i, k_d: the table read at the speed of this update
PID_k_p(c) == interp(c.speed, c.k_p[1], c.k_p[2])
PID_k_i(c) == interp(c.speed, c.k_i[1], c.k_i[2])
PID_k_d(c) == interp(c.speed, c.k_d[1], c.k_d[2])

\* the integral term in units of 1/S
PID_i(c) == RoundDiv(c.i, IFine)

\* line 59: the anti-windup bleed, from the previous update's p, i, f; in the
\* units of the field i
PID_i_bf_adds(c, last_output) ==
  (c.i_unwind_rate * ((last_output - c.p - c.f) * IFine - c.i)) \div S

PID_i_bf(c, last_output) ==
  (c.i_unwind_rate * ((c.p + c.f - last_output) * IFine + c.i)) \div S

\* lines 66-69 with the newest stored sample in place of the one d_period back
PID_d_newest(c, error) ==
  IF Len(c.errors) >= c.d_period
  THEN Mul((error - c.errors[Len(c.errors)]) \div c.d_period, PID_k_d(c))
  ELSE 0

\* lines 66-69: the fixed-lag derivative
PID_d(c, error) ==
  IF Len(c.errors) >= c.d_period
  THEN Mul((error - c.errors[Len(c.errors) - c.d_period + 1]) \div c.d_period, PID_k_d(c))
  ELSE 0

\* lines 76-78: append, then pop from the front down to d_period samples
PID_push_error(errors, error, d_period) ==
  LET e == Append(errors, error)
  IN  IF Len(e) > d_period THEN SubSeq(e, Len(e) - d_period + 1, Len(e)) ELSE e

\* line 75: i_decay_factor * i, rounded to the nearest unit of i; computed as
\* i - (1 - i_decay_factor) * i, which stays within 32-bit integers
PID_decay(i_decay_factor, i) == i - RoundDiv((DecayScale - i_decay_factor) * i, DecayScale)

\* line 80
PID_clip_control_raw(control, neg_limit, pos_limit) == control

PID_clip_control(control, neg_limit, pos_limit) == clip(control, neg_limit, pos_limit)

\* update(), lines 57-74: the locals of the call
PID_terms(c0, setpoint, measurement, last_output, speed, feedforward, deadzone) ==
  LET c     == [c0 EXCEPT !.speed = speed]
      i_bf  == PID_i_bf(c, last_output)
      error == apply_deadzone(setpoint - measurement, deadzone)
      p     == Mul(error, PID_k_p(c))
      i     == c.i + (Mul(error, PID_k_i(c)) * c.i_rate * IFine) \div S - i_bf
      d     == PID_d(c, error)
      f     == clip(Mul(feedforward, c.k_f), c.neg_limit, c.pos_limit)
  IN  [error |-> error, p |-> p, i |-> i, f |-> f, d |-> d,
       control |-> p + RoundDiv(i, IFine) + f + d]

\* update(): the object after the call; its control field is the value returned
PID_update(c0, setpoint, measurement, last_output, speed, feedforward, deadzone) ==
  LET t == PID_terms(c0, setpoint, measurement, last_output, speed, feedforward, deadzone)
  IN  [c0 EXCEPT !.speed = speed,
                 !.p = t.p,
                 !.i = PID_decay(c0.i_decay_factor, t.i),
                 !.f = t.f,
                 !.errors = PID_push_error(c0.errors, t.error, c0.d_period),
                 !.control = PID_clip_control(t.control, c0.neg_limit, c0.pos_limit)]

\* update's signature, line 56: parameter names, the first three without default
PID_update_params == <<"setpoint", "measurement", "last_output", "speed", "feedforward", "deadzone">>
PID_update_required == 3

\* Whether a call update(<n positional>, <keywords>) binds to that signature
PID_update_binds(n_positional, keywords) ==
  /\ n_positional <= Len(PID_update_params)
  /\ \A k \in keywords :
       \E j \in (n_positional + 1)..Len(PID_update_params) : PID_update_params[j] = k
  /\ \A j \in (n_positional + 1)..PID_update_required : PID_update_params[j] \in keywords

\* ------------------------------------------------------------ longcontrol.py
ACCEL_MIN_ISO == -35 * (S \div 10)
ACCEL_MAX_ISO == 2 * S
\* common.realtime.DT_CTRL, 0.01 s
DT_CTRL == S \div 100
\* selfdrive.controls.lib.drive_helpers.CONTROL_N
CONTROL_N == 17
\* selfdrive.modeld.constants.T_IDXS[:CONTROL_N]: 10 * (idx / 32)^2
T_IDXS == [idx \in 1..CONTROL_N |-> (10 * S * (idx - 1) * (idx - 1)) \div 1024]
\* selfdrive.ntune.ntune_scc_get: the tuned actuator delay bounds
NTuneScc ==
  [longitudinalActuatorDelayLowerBound |-> (15 * S) \div 100,
   longitudinalActuatorDelayUpperBound |-> S \div 2]
ntune_scc_get(key) == NTuneScc[key]

\* radarState is None, or has a leadOne that is None or a lead
NoRadar == [none |-> TRUE]
NoLead == [none |-> TRUE]
Radar(leadOne) == [none |-> FALSE, leadOne |-> leadOne]
Lead(status, vLead) == [none |-> FALSE, status |-> status, vLead |-> vLead]

\* line 19
trans_accelerating(v_target_future, v_target) == v_target_future > v_target

\* lines 20-22
trans_stopping_condition(CP, v_ego, v_target_future, v_target, brake_pressed, cruise_standstill) ==
  \/ (v_ego < 2 * S /\ cruise_standstill)
  \/ /\ v_ego < CP.vEgoStopping
     /\ \/ (v_target_future < CP.vEgoStopping /\ ~trans_accelerating(v_target_future, v_target))
        \/ brake_pressed

\* lines 24-28
trans_starting_condition(CP, v_target_future, v_target, cruise_standstill, radarState) ==
  LET starting_condition ==
        /\ v_target_future > CP.vEgoStarting
        /\ trans_accelerating(v_target_future, v_target)
        /\ ~cruise_standstill
  IN  IF ~radarState.none /\ ~radarState.leadOne.none /\ radarState.leadOne.status
      THEN starting_condition /\ radarState.leadOne.vLead > CP.vEgoStarting
      ELSE starting_condition

\* lines 30-50: the value the local long_control_state holds before the return
trans_next_state(CP, active, long_control_state, v_ego, v_target_future, v_target, output_accel, brake_pressed, cruise_standstill, radarState) ==
  LET stopping_condition ==
        trans_stopping_condition(CP, v_ego, v_target_future, v_target, brake_pressed, cruise_standstill)
      starting_condition ==
        trans_starting_condition(CP, v_target_future, v_target, cruise_standstill, radarState)
  IN  IF ~active THEN "off"
      ELSE IF long_control_state = "off" THEN "pid"
      ELSE IF long_control_state = "pid"
        THEN (IF stopping_condition THEN "stopping" ELSE "pid")
      ELSE IF long_control_state = "stopping"
        THEN (IF starting_condition THEN "starting" ELSE "stopping")
      ELSE IF long_control_state = "starting"
        THEN (IF stopping_condition THEN "stopping"
              ELSE IF output_accel >= CP.startAccel THEN "pid"
              ELSE "starting")
      ELSE long_control_state

\* long_control_state_trans: line 52 returns the name long_control_stat, looked
\* up among the call's parameters and locals (the module binds no such global)
long_control_state_trans(CP, active, long_control_state, v_ego, v_target_future, v_target, output_accel, brake_pressed, cruise_standstill, radarState) ==
  Lookup("long_control_stat",
    [CP |-> CP, active |-> active, v_ego |-> v_ego,
     v_target_future |-> v_target_future, v_target |-> v_target,
     output_accel |-> output_accel, brake_pressed |-> brake_pressed,
     cruise_standstill |-> cruise_standstill, radarState |-> radarState,
     accelerating |-> trans_accelerating(v_target_future, v_target),
     stopping_condition |->
       trans_stopping_condition(CP, v_ego, v_target_future, v_target, brake_pressed, cruise_standstill),
     starting_condition |->
       trans_starting_condition(CP, v_target_future, v_target, cruise_standstill, radarState),
     long_control_state |->
       trans_next_state(CP, active, long_control_state, v_ego, v_target_future, v_target,
                        output_accel, brake_pressed, cruise_standstill, radarState)])

\* LongControl.__init__
LC_init(CP) ==
  [alive |-> TRUE,
   long_control_state |-> "off",
   pid |-> PID_init(Tab(CP.kpBP, CP.kpV), Tab(CP.kiBP, CP.kiV), Tab(CP.kdBP, CP.kdV),
                    S, None, None, S \div DT_CTRL, DefaultDecayTau, S \div 2),
   v_pid |-> 0,
   last_output_accel |-> 0]

\* LongControl.reset
LC_reset(o, v_pid) == [o EXCEPT !.pid = PID_reset(o.pid), !.v_pid = v_pid]

\* update, lines 75-98: v_target, v_target_future and the feedforward a_target
LC_targets(long_plan, vEgo) ==
  LET full == Len(long_plan.speeds) = CONTROL_N
      lo == ntune_scc_get("longitudinalActuatorDelayLowerBound")
      up == ntune_scc_get("longitudinalActuatorDelayUpperBound")
      v_target_lower == interp(lo, T_IDXS, long_plan.speeds)
      a_target_lower == (2 * (v_target_lower - long_plan.speeds[1]) * S) \div lo - long_plan.accels[1]
      v_target_upper == interp(up, T_IDXS, long_plan.speeds)
      a_target_upper == (2 * (v_target_upper - long_plan.speeds[1]) * S) \div up - long_plan.accels[1]
      a_target0 == IF full THEN Min2(a_target_lower, a_target_upper) ELSE 0
      a_target1 == IF a_target0 > 0
                   THEN Mul(a_target0, interp(vEgo, <<0, 3 * S>>, <<(12 * S) \div 10, S>>))
                   ELSE a_target0
  IN  [v_target        |-> IF full THEN long_plan.speeds[1] ELSE 0,
       v_target_future |-> IF full THEN long_plan.speeds[CONTROL_N] ELSE 0,
       a_target_lower  |-> IF full THEN a_target_lower ELSE 0,
       a_target_upper  |-> IF full THEN a_target_upper ELSE 0,
       a_target        |-> clip(a_target1, ACCEL_MIN_ISO, ACCEL_MAX_ISO)]

\* update, lines 129-136: the Stopping branch's held accel
LC_stopping_accel(output_accel, CS, CP, accel_limits) ==
  LET ramped ==
        IF ~CS.standstill \/ output_accel > CP.stopAccel
        THEN output_accel
             - Mul(Mul(CP.stoppingDecelRate, DT_CTRL),
                   interp(output_accel, <<CP.stopAccel, CP.stopAccel \div 2, 0>>,
                          <<(3 * S) \div 10, (65 * S) \div 100, (12 * S) \div 10>>))
        ELSE output_accel
  IN  clip(ramped, accel_limits[1], accel_limits[2])

\* update, lines 139-142: the Starting branch's held accel
LC_starting_accel(output_accel, CP) ==
  IF output_accel < CP.startAccel
  THEN output_accel + Mul(CP.startingAccelRate, DT_CTRL)
  ELSE output_accel

\* update, line 119: the "prevent overshoot" rule
LC_prevent_overshoot(CP, CS, v_target_future, v_pid) ==
  /\ ~CP.stoppingControl
  /\ CS.vEgo < (15 * S) \div 10
  /\ v_target_future < (7 * S) \div 10
  /\ v_target_future < v_pid

\* update, line 123: what binding the call's arguments to update's signature raises
LC_pid_call_exc ==
  IF PID_update_binds(2, {"speed", "deadzone", "feedforward", "freeze_integrator"})
  THEN "none"
  ELSE "TypeError"

\* update, lines 109-147, once the transition has returned the state st:
\* the object after the call, the exception raised and the value returned
LC_command(o1, st, CS, CP, t, accel_limits) ==
  LET o == [o1 EXCEPT !.long_control_state = st]
      output_accel == o1.last_output_accel
      done(obj, accel) ==
        [obj |-> [obj EXCEPT !.last_output_accel = accel],
         exc |-> "none",
         ret |-> clip(accel, accel_limits[1], accel_limits[2])]
  IN  IF st = "off" \/ CS.gasPressed
        THEN done(LC_reset(o, CS.vEgo), 0)
      ELSE IF st = "pid"
        THEN \* lines 115-123: v_pid is set, then the call of the PID core's update
             \* with (v_pid, vEgo, speed=, deadzone=, feedforward=, freeze_integrator=)
             \* raises and lines 125-126 are not reached
             [obj |-> [o EXCEPT !.v_pid = t.v_target], exc |-> LC_pid_call_exc, ret |-> None]
      ELSE IF st = "stopping"
        THEN done(LC_reset(o, CS.vEgo), LC_stopping_accel(output_accel, CS, CP, accel_limits))
      ELSE IF st = "starting"
        THEN done(LC_reset(o, CS.vEgo), LC_starting_accel(output_accel, CP))
      ELSE done(o, output_accel)

\* LongControl.update: the object after the call, the exception raised and
\* the value returned
LC_update(o0, active, CS, CP, long_plan, accel_limits, radarState) ==
  LET t  == LC_targets(long_plan, CS.vEgo)
      o1 == [o0 EXCEPT !.pid.neg_limit = accel_limits[1], !.pid.pos_limit = accel_limits[2]]
      tr == long_control_state_trans(CP, active, o0.long_control_state, CS.vEgo,
                                     t.v_target_future, t.v_target, o0.last_output_accel,
                                     CS.brakePressed, CS.cruiseState_standstill, radarState)
  IN  IF tr.exc # "none"
      THEN [obj |-> o1, exc |-> tr.exc, ret |-> None]
      ELSE LC_command(o1, tr.value, CS, CP, t, accel_limits)

\* ---------------------------------------------------------- latcontrol_pid.py
\* selfdrive.controls.lib.latcontrol.MIN_STEER_SPEED, 0.3 m/s
MIN_STEER_SPEED == (3 * S) \div 10
\* the saturation test's epsilon, 1e-3
SAT_EPS == S \div 1000

\* selfdrive.controls.lib.drive_helpers.get_steer_max
get_steer_max(CP, v_ego) == interp(v_ego, CP.steerMaxBP, CP.steerMaxV)

\* CI.get_steer_feedforward_function(): the default curve, angle * speed^2
get_steer_feedforward(desired_angle, v_ego) == Mul(desired_angle, Mul(v_ego, v_ego))

\* CI.calc_last_outputs: the command as the actuator applied it
calc_last_outputs(output) == output

\* LatControl.__init__ and LatControlPID.__init__
Lat_init(CP) ==
  [alive |-> TRUE,
   sat_count_rate |-> DT_CTRL,
   sat_limit |-> CP.steerLimitTimer,
   sat_count |-> 0,
   pid |-> PID_init(Tab(CP.kpBP, CP.kpV), Tab(CP.kiBP, CP.kiV), Tab(CP.kdBP, CP.kdV),
                    CP.kf, S, -S, DefaultRate, DefaultDecayTau, S \div 10),
   new_kf_tuned |-> CP.newKfTuned,
   output_steer_last |-> 0,
   ouptut_steer_last |-> None]

\* LatControl.reset alone, without the PID core's reset
Lat_reset_keeps_pid(o) == [o EXCEPT !.sat_count = 0]

\* LatControlPID.reset: LatControl.reset, then the PID core's reset
Lat_reset(o) == [o EXCEPT !.sat_count = 0, !.pid = PID_reset(o.pid)]

\* LatControl._check_saturation: the debounce counter after the call
Lat_sat_count(o, saturated, CS) ==
  clip(IF saturated /\ CS.vEgo > 10 * S /\ ~CS.steeringRateLimited /\ ~CS.steeringPressed
       THEN o.sat_count + o.sat_count_rate
       ELSE o.sat_count - o.sat_count_rate,
       0, S)

\* line 58: the attribute the end of update assigns the command to
Lat_store_output_fixed(o, output_steer) == [o EXCEPT !.output_steer_last = output_steer]

Lat_store_output(o, output_steer) == [o EXCEPT !.ouptut_steer_last = output_steer]

\* lines 41-42 left out: the PID core keeps the limits it had
Lat_set_limits_kept(o, steers_max) == o

\* lines 41-42: the PID core's limits for this tick
Lat_set_limits(o, steers_max) ==
  [o EXCEPT !.pid.pos_limit = steers_max, !.pid.neg_limit = -steers_max]

\* LatControlPID.update; angle_steers_des_no_offset is what the vehicle model
\* VM gives for (-desired_curvature, vEgo, roll), in degrees.  The result: the
\* object after the call, the command, the desired angle, the diagnostic
\* record, and the value read from output_steer_last for the PID core
Lat_update(o, active, CS, CP, angle_steers_des_no_offset, params) ==
  LET angle_steers_des == angle_steers_des_no_offset + params.angleOffsetDeg
  IN  IF CS.vEgo < MIN_STEER_SPEED \/ ~active
      THEN [obj |-> Lat_store_output(Lat_reset(o), 0),
            ret |-> 0,
            angle_steers_des |-> angle_steers_des,
            pid_log |-> [active |-> FALSE, saturated |-> FALSE],
            last_read |-> None]
      ELSE
        LET steers_max == get_steer_max(CP, CS.vEgo)
            o1 == Lat_set_limits(o, steers_max)
            steer_feedforward == get_steer_feedforward(angle_steers_des_no_offset, CS.vEgo)
            c == PID_update(o1.pid, angle_steers_des, CS.steeringAngleDeg,
                            calc_last_outputs(o1.output_steer_last),
                            CS.vEgo, steer_feedforward, 0)
            output_steer == c.control
            sat == Lat_sat_count(o1, steers_max - Abs(output_steer) < SAT_EPS, CS)
            o2 == [o1 EXCEPT !.pid = c, !.sat_count = sat]
        IN  [obj |-> Lat_store_output(o2, output_steer),
             ret |-> output_steer,
             angle_steers_des |-> angle_steers_des,
             pid_log |-> [active |-> TRUE, p |-> c.p, i |-> PID_i(c), f |-> c.f,
                          output |-> output_steer, saturated |-> sat > o1.sat_limit],
             last_read |-> o1.output_steer_last]

\* ------------------------------------------------------ stand-alone PID
MaxUpdates == 3
MaxDPeriod == 2

\* constructor arguments
DerivPeriods == {k * (S \div DefaultRate) : k \in 1..MaxDPeriod}
GainArgs ==
  { [k_p |-> Tab(<<0, 10 * S>>, <<S, S \div 2>>), k_i |-> Num(S \div 2),
     k_d |-> Num(S \div 5), k_f |-> S],
    [k_p |-> Num(2 * S), k_i |-> Tab(<<0, 10 * S>>, <<S \div 10, S>>),
     k_d |-> Tab(<<0>>, <<0>>), k_f |-> S \div 2] }
\* limits, neg_limit <= 0 <= pos_limit
LimitArgs == { <<-4 * S, 4 * S>>, <<0, S \div 2>> }

\* update arguments
ErrArgs ==
  { <<2 * S, S, S>>, <<0, S, S>>, <<2 * S, -S, S>>,
    <<0, 3 * S, S>>, <<2 * S, S, 0>>, <<S \div 2, S, S>> }
OtherArgs ==
  { <<-S, 0, 0>>, <<2 * S, 5 * S, 5 * S>> }


\* PIDController(...): raises NameError at line 20 unless np is bound
PIDConstruct ==
  /\ pid = NoObj
  /\ \E g \in GainArgs, lim \in LimitArgs, dp \in DerivPeriods :
       IF np_bound
       THEN /\ pid' = PID_init(g.k_p, g.k_i, g.k_d, g.k_f, lim[2], lim[1],
                               DefaultRate, DefaultDecayTau, dp)
            /\ exc' = "none"
            /\ pid_call' = [NoCall EXCEPT !.op = "init"]
       ELSE /\ pid' = NoObj
            /\ exc' = "NameError"
            /\ pid_call' = [NoCall EXCEPT !.op = "init"]
  /\ UNCHANGED <<np_bound, long_vars, lat_vars>>

PIDReset ==
  /\ pid.alive
  /\ pid' = PID_reset(pid)
  /\ pid_call' = [op |-> "reset", updates |-> pid_call.updates, since_reset |-> 0]
  /\ exc' = "none"
  /\ UNCHANGED <<np_bound, long_vars, lat_vars>>

\* pos_limit and neg_limit are plain attributes, assigned by the owner
PIDSetLimits ==
  /\ pid.alive
  /\ \E lim \in LimitArgs :
       pid' = [pid EXCEPT !.neg_limit = lim[1], !.pos_limit = lim[2]]
  /\ pid_call' = [op |-> "set_limits", updates |-> pid_call.updates,
                  since_reset |-> pid_call.since_reset]
  /\ exc' = "none"
  /\ UNCHANGED <<np_bound, long_vars, lat_vars>>

PIDUpdate ==
  /\ pid.alive
  /\ pid_call.updates < MaxUpdates
  /\ \E e \in ErrArgs, o \in OtherArgs :
       /\ pid' = PID_update(pid, e[1], e[2], o[1], o[2], o[3], e[3])
       /\ pid_call' = [op |-> "update",
                       updates |-> pid_call.updates + 1,
                       since_reset |-> pid_call.since_reset + 1,
                       setpoint |-> e[1], measurement |-> e[2], deadzone |-> e[3],
                       last_output |-> o[1], speed |-> o[2], feedforward |-> o[3],
                       raw |-> PID_terms(pid, e[1], e[2], o[1], o[2], o[3], e[3]).control,
                       ret |-> pid'.control]
  /\ exc' = "none"
  /\ UNCHANGED <<np_bound, long_vars, lat_vars>>

InitPID ==
  /\ np_bound \in BOOLEAN
  /\ exc = "none"
  /\ pid = NoObj
  /\ pid_call = NoCall
  /\ trans_call = NoTrans
  /\ lc = NoObj
  /\ lc_call = NoCall
  /\ lat = NoObj
  /\ lat_call = NoCall

NextPID == PIDConstruct \/ PIDReset \/ PIDSetLimits \/ PIDUpdate

SpecPID == InitPID /\ [][NextPID]_vars

\* ------------------------------------------- sustained external saturation
\* One controller, updated on every tick with the same arguments: a non-zero
\* error, a feedforward, and a last_output held below the unclamped command.
SatErrArgs == { <<2 * S, S, 0>>, <<2 * S, -S, S>>, <<0, 3 * S, S>> }
SatOtherArgs == { <<-8 * S, 0, 0>>, <<-6 * S, 5 * S, 2 * S>> }
SatCount == 2

InitSat ==
  /\ np_bound = TRUE
  /\ exc = "none"
  /\ \E g \in GainArgs, lim \in LimitArgs :
       pid = PID_init(g.k_p, g.k_i, g.k_d, g.k_f, lim[2], lim[1],
                      DefaultRate, DefaultDecayTau, S \div DefaultRate)
  /\ \E e \in SatErrArgs, o \in SatOtherArgs :
       pid_call = [op |-> "init", updates |-> 0, since_reset |-> 0,
                   setpoint |-> e[1], measurement |-> e[2], deadzone |-> e[3],
                   last_output |-> o[1], speed |-> o[2], feedforward |-> o[3],
                   raw |-> 0, ret |-> 0]
  /\ trans_call = NoTrans
  /\ lc = NoObj
  /\ lc_call = NoCall
  /\ lat = NoObj
  /\ lat_call = NoCall

SatNextPID ==
  PID_update(pid, pid_call.setpoint, pid_call.measurement, pid_call.last_output,
             pid_call.speed, pid_call.feedforward, pid_call.deadzone)

SatUpdate ==
  /\ pid' = SatNextPID
  /\ pid_call' = [pid_call EXCEPT
        !.op = "update",
        !.updates = Min2(@ + 1, SatCount),
        !.since_reset = Min2(@ + 1, SatCount),
        !.raw = PID_terms(pid, pid_call.setpoint, pid_call.measurement, pid_call.last_output,
                          pid_call.speed, pid_call.feedforward, pid_call.deadzone).control,
        !.ret = pid'.control]
  /\ exc' = "none"
  /\ UNCHANGED <<np_bound, long_vars, lat_vars>>

NextSat == SatUpdate

SpecSat == InitSat /\ [][NextSat]_vars /\ WF_vars(SatUpdate)

\* ------------------------------------------------- the derivative's history
\* One controller with a speed-scheduled derivative gain, updated and reset in
\* any order; pid_call keeps every error since the last reset (or construction)
\* and the derivative term of the last update.
MaxDerivUpdates == 4

DerivGains ==
  [k_p |-> Num(S), k_i |-> Num(S \div 10),
   k_d |-> Tab(<<0, 10 * S>>, <<S \div 5, S \div 2>>), k_f |-> S]
\* (setpoint, measurement, speed), deadzone 0
DerivArgs ==
  { <<0, 0, 0>>, <<S, 0, 10 * S>>, <<0, 2 * S, 0>>, <<3 * S, 0, 10 * S>> }

DerivConstruct ==
  /\ pid = NoObj
  /\ \E dp \in DerivPeriods :
       IF np_bound
       THEN /\ pid' = PID_init(DerivGains.k_p, DerivGains.k_i, DerivGains.k_d, DerivGains.k_f,
                               100 * S, -100 * S, DefaultRate, DefaultDecayTau, dp)
            /\ exc' = "none"
            /\ pid_call' = [op |-> "init", updates |-> 0, since_reset |-> 0, hist |-> <<>>]
       ELSE /\ pid' = NoObj
            /\ exc' = "NameError"
            /\ pid_call' = [op |-> "init", updates |-> 0, since_reset |-> 0, hist |-> <<>>]
  /\ UNCHANGED <<np_bound, long_vars, lat_vars>>

DerivReset ==
  /\ pid.alive
  /\ pid' = PID_reset(pid)
  /\ pid_call' = [op |-> "reset", updates |-> pid_call.updates, since_reset |-> 0,
                  hist |-> <<>>]
  /\ exc' = "none"
  /\ UNCHANGED <<np_bound, long_vars, lat_vars>>

DerivUpdate ==
  /\ pid.alive
  /\ pid_call.updates < MaxDerivUpdates
  /\ \E a \in DerivArgs :
       LET t == PID_terms(pid, a[1], a[2], 0, a[3], 0, 0)
       IN  /\ pid' = PID_update(pid, a[1], a[2], 0, a[3], 0, 0)
           /\ pid_call' = [op |-> "update",
                           updates |-> pid_call.updates + 1,
                           since_reset |-> pid_call.since_reset + 1,
                           hist |-> Append(pid_call.hist, a[1] - a[2]),
                           speed |-> a[3],
                           d |-> t.d,
                           raw |-> t.control,
                           ret |-> pid'.control]
  /\ exc' = "none"
  /\ UNCHANGED <<np_bound, long_vars, lat_vars>>

NextDeriv == DerivConstruct \/ DerivReset \/ DerivUpdate

SpecDeriv == InitPID /\ [][NextDeriv]_vars

\* ------------------------------------------------- longitudinal controller
\* vehicle parameters: with and without a standstill-hold mode
CarParams ==
  { [vEgoStopping |-> S \div 2, vEgoStarting |-> S \div 2,
     startAccel |-> -(8 * S) \div 10, stopAccel |-> -2 * S,
     stoppingDecelRate |-> (8 * S) \div 10, startingAccelRate |-> (32 * S) \div 10,
     stoppingControl |-> sc,
     kpBP |-> <<0, 10 * S>>, kpV |-> <<S, S \div 2>>,
     kiBP |-> <<0>>, kiV |-> <<S \div 5>>,
     kdBP |-> <<0>>, kdV |-> <<0>>,
     deadzoneBP |-> <<0, 9 * S>>, deadzoneV |-> <<0, (15 * S) \div 100>>] : sc \in BOOLEAN }

\* planned trajectories: v0 + a*t over T_IDXS, never below 0; and a malformed one
PlanLinear(v0, a) ==
  [speeds |-> [idx \in 1..CONTROL_N |-> Max2(0, v0 + Mul(a, T_IDXS[idx]))],
   accels |-> [idx \in 1..CONTROL_N |-> a]]
Plans ==
  { PlanLinear(0, 0), PlanLinear(0, S), PlanLinear(5 * S, 0), PlanLinear(S, -S),
    [speeds |-> <<>>, accels |-> <<>>] }

\* vehicle state snapshots
CarState(v, b, g, cs) ==
  [vEgo |-> v, brakePressed |-> b, gasPressed |-> g, standstill |-> (v = 0),
   cruiseState_standstill |-> cs]
CarStates ==
  { CarState(v, FALSE, g, cs) : v \in {0, 5 * S}, g \in BOOLEAN, cs \in BOOLEAN }
  \cup { CarState(0, TRUE, FALSE, FALSE) }

AccelLimits == { <<-35 * (S \div 10), 2 * S>>, <<-S, S \div 2>> }
RadarStates == { NoRadar, Radar(NoLead), Radar(Lead(FALSE, 0)), Radar(Lead(TRUE, 0)),
                 Radar(Lead(TRUE, 5 * S)) }
LongRadarStates == { NoRadar, Radar(Lead(TRUE, 0)) }
LongStates == {"off", "pid", "stopping", "starting"}
StandCap == 3

\* the standstill scenario: speed 0, cruise standstill, gas released, targets 0
StandstillTick(active, CS, long_plan) ==
  /\ active
  /\ CS.vEgo = 0 /\ CS.cruiseState_standstill /\ ~CS.gasPressed
  /\ long_plan = PlanLinear(0, 0)

\* LongControl(CP): builds the PID core, whose constructor needs np
LCConstruct ==
  /\ lc = NoObj
  /\ lc_call.op = "none"
  /\ \E CP \in CarParams :
       IF np_bound
       THEN /\ lc' = LC_init(CP)
            /\ exc' = "none"
            /\ lc_call' = [op |-> "init", updates |-> 0, since_reset |-> 0,
                            CP |-> CP, stand_ticks |-> 0, all_stand |-> TRUE]
       ELSE /\ lc' = NoObj
            /\ exc' = "NameError"
            /\ lc_call' = [op |-> "init", updates |-> 0, since_reset |-> 0,
                            CP |-> CP, stand_ticks |-> 0, all_stand |-> TRUE]
  /\ UNCHANGED <<np_bound, pid_vars, trans_call, lat_vars>>

\* one tick: LongControl.update(active, CS, CP, long_plan, accel_limits, radarState)
LCUpdate ==
  /\ lc.alive
  /\ \E active \in BOOLEAN, CS \in CarStates, long_plan \in Plans,
        accel_limits \in AccelLimits, radarState \in LongRadarStates :
       LET r == LC_update(lc, active, CS, lc_call.CP, long_plan, accel_limits, radarState)
           stand == lc_call.all_stand /\ StandstillTick(active, CS, long_plan)
       IN  /\ lc' = r.obj
           /\ exc' = r.exc
           /\ lc_call' = [op |-> "update",
                           updates |-> 0,
                           since_reset |-> 0,
                           CP |-> lc_call.CP,
                           active |-> active, CS |-> CS, long_plan |-> long_plan,
                           accel_limits |-> accel_limits, radarState |-> radarState,
                           state_before |-> lc.long_control_state,
                           held_before |-> lc.last_output_accel,
                           i_before |-> lc.pid.i,
                           all_stand |-> stand,
                           stand_ticks |-> IF stand THEN Min2(lc_call.stand_ticks + 1, StandCap) ELSE 0,
                           exc |-> r.exc,
                           ret |-> r.ret]
  /\ UNCHANGED <<np_bound, pid_vars, trans_call, lat_vars>>

\* LongControl.reset(v_pid), called on its own between ticks
ResetSpeeds == {0, 5 * S}

LCReset ==
  /\ lc.alive
  /\ \E v_pid \in ResetSpeeds :
       /\ lc' = LC_reset(lc, v_pid)
       /\ lc_call' = [op |-> "reset", updates |-> 0, since_reset |-> 0,
                       CP |-> lc_call.CP, v_pid |-> v_pid,
                       stand_ticks |-> lc_call.stand_ticks, all_stand |-> lc_call.all_stand]
  /\ exc' = "none"
  /\ UNCHANGED <<np_bound, pid_vars, trans_call, lat_vars>>

InitLong ==
  /\ np_bound \in BOOLEAN
  /\ exc = "none"
  /\ pid = NoObj
  /\ pid_call = NoCall
  /\ trans_call = NoTrans
  /\ lc = NoObj
  /\ lc_call = NoCall
  /\ lat = NoObj
  /\ lat_call = NoCall

NextLong == LCConstruct \/ LCReset \/ LCUpdate

SpecLong == InitLong /\ [][NextLong]_vars

\* ------------------------------------------------- a scripted drive
\* The controller is ticked through the drive the state machine is built for:
\* one engaging tick, then ticks on which the stopping condition holds, then
\* ticks on which the starting condition holds.  Every tick is active, with
\* gas released.  lc_call.phase names the kind of the last tick.
MaxDriveTicks == 5

DriveCarStates ==
  { CarState(v, b, FALSE, cs) : v \in {0, S}, b \in BOOLEAN, cs \in BOOLEAN }
DrivePlans == { PlanLinear(0, 0), PlanLinear(0, S), PlanLinear(S, -S) }

\* the stopping and the starting condition of lines 20-28 on a tick's arguments
DriveStopping(CP, CS, long_plan) ==
  LET t == LC_targets(long_plan, CS.vEgo)
  IN  trans_stopping_condition(CP, CS.vEgo, t.v_target_future, t.v_target,
                               CS.brakePressed, CS.cruiseState_standstill)
DriveStarting(CP, CS, long_plan, radarState) ==
  LET t == LC_targets(long_plan, CS.vEgo)
  IN  trans_starting_condition(CP, t.v_target_future, t.v_target,
                               CS.cruiseState_standstill, radarState)

\* the kind of tick the arguments make, after a tick of kind phase
DrivePhase(phase, CP, CS, long_plan, radarState) ==
  IF phase = "init" THEN "engage"
  ELSE IF /\ phase \in {"engage", "stop"}
          /\ DriveStopping(CP, CS, long_plan)
          /\ ~DriveStarting(CP, CS, long_plan, radarState) THEN "stop"
  ELSE IF /\ phase \in {"stop", "go"}
          /\ ~DriveStopping(CP, CS, long_plan)
          /\ DriveStarting(CP, CS, long_plan, radarState) THEN "go"
  ELSE "none"

DriveTick ==
  /\ lc.alive
  /\ lc_call.updates < MaxDriveTicks
  /\ \E CS \in DriveCarStates, long_plan \in DrivePlans,
        accel_limits \in AccelLimits, radarState \in LongRadarStates :
       LET phase == DrivePhase(IF lc_call.op = "init" THEN "init" ELSE lc_call.phase,
                               lc_call.CP, CS, long_plan, radarState)
           r == LC_update(lc, TRUE, CS, lc_call.CP, long_plan, accel_limits, radarState)
       IN  /\ phase # "none"
           /\ lc' = r.obj
           /\ exc' = r.exc
           /\ lc_call' = [op |-> "update",
                           updates |-> lc_call.updates + 1,
                           since_reset |-> 0,
                           CP |-> lc_call.CP,
                           phase |-> phase,
                           go_ticks |-> IF phase # "go" THEN 0
                                        ELSE IF lc_call.phase = "go" THEN 2 ELSE 1,
                           active |-> TRUE, CS |-> CS, long_plan |-> long_plan,
                           accel_limits |-> accel_limits, radarState |-> radarState,
                           state_before |-> lc.long_control_state,
                           held_before |-> lc.last_output_accel,
                           exc |-> r.exc,
                           ret |-> r.ret]
  /\ UNCHANGED <<np_bound, pid_vars, trans_call, lat_vars>>

\* LongControl.reset(v_pid), called on its own at any point of the drive
DriveReset ==
  /\ lc.alive
  /\ \E v_pid \in ResetSpeeds :
       /\ lc' = LC_reset(lc, v_pid)
       /\ lc_call' = [op |-> "reset", updates |-> lc_call.updates, since_reset |-> 0,
                       CP |-> lc_call.CP, v_pid |-> v_pid,
                       phase |-> IF lc_call.op = "init" THEN "init" ELSE lc_call.phase]
  /\ exc' = "none"
  /\ UNCHANGED <<np_bound, pid_vars, trans_call, lat_vars>>

NextDrive == LCConstruct \/ DriveReset \/ DriveTick

SpecDrive == InitLong /\ [][NextDrive]_vars

\* ------------------------------------------- long_control_state_trans alone
TransSpeeds == {0, S, 5 * S}
TransAccels == {-2 * S, -(8 * S) \div 10, 0}

InitTrans ==
  /\ np_bound \in BOOLEAN
  /\ exc = "none"
  /\ pid = NoObj
  /\ pid_call = NoCall
  /\ lc = NoObj
  /\ lc_call = NoCall
  /\ lat = NoObj
  /\ lat_call = NoCall
  /\ \E CP \in CarParams, active \in BOOLEAN, st \in LongStates,
        v_ego \in TransSpeeds, v_target_future \in TransSpeeds, v_target \in TransSpeeds,
        output_accel \in TransAccels, brake_pressed \in BOOLEAN,
        cruise_standstill \in BOOLEAN, radarState \in RadarStates :
       trans_call = [called |-> FALSE, CP |-> CP, active |-> active,
                     long_control_state |-> st, v_ego |-> v_ego,
                     v_target_future |-> v_target_future, v_target |-> v_target,
                     output_accel |-> output_accel, brake_pressed |-> brake_pressed,
                     cruise_standstill |-> cruise_standstill, radarState |-> radarState]

TransResult(a) ==
  long_control_state_trans(a.CP, a.active, a.long_control_state, a.v_ego, a.v_target_future,
                           a.v_target, a.output_accel, a.brake_pressed, a.cruise_standstill,
                           a.radarState)

TransCall ==
  /\ ~trans_call.called
  /\ trans_call' = [c \in {"ret"} \cup DOMAIN trans_call |->
                      IF c = "ret" THEN TransResult(trans_call)
                      ELSE IF c = "called" THEN TRUE
                      ELSE trans_call[c]]
  /\ exc' = TransResult(trans_call).exc
  /\ UNCHANGED <<np_bound, pid_vars, lc, lc_call, lat_vars>>

NextTrans == TransCall

SpecTrans == InitTrans /\ [][NextTrans]_vars

\* ------------------------------------------------------ lateral controller
MaxLatTicks == 3

LatCarParams ==
  { [kpBP |-> <<0>>, kpV |-> <<S \div 5>>,
     kiBP |-> <<0>>, kiV |-> <<S \div 20>>,
     kdBP |-> <<0>>, kdV |-> <<0>>,
     kf |-> kf, newKfTuned |-> FALSE,
     steerMaxBP |-> <<0, 10 * S>>, steerMaxV |-> <<S \div 2, S>>,
     steerLimitTimer |-> S \div 100] : kf \in {S \div 1000, 0} }

LatCarState(v, angle, pressed) ==
  [vEgo |-> v, steeringAngleDeg |-> angle, steeringRateDeg |-> 0,
   steeringRateLimited |-> FALSE, steeringPressed |-> pressed]

\* (active, CS, angle_steers_des_no_offset, angleOffsetDeg)
LatArgs ==
  { <<TRUE,  LatCarState(5 * S, 0, FALSE),     2 * S,  0>>,
    <<TRUE,  LatCarState(5 * S, 0, FALSE),     -2 * S, S \div 2>>,
    <<TRUE,  LatCarState(5 * S, 2 * S, FALSE), 2 * S,  0>>,
    <<TRUE,  LatCarState(5 * S, 2 * S, FALSE), -3 * S, 0>>,
    <<TRUE,  LatCarState(12 * S, 0, FALSE),    8 * S,  0>>,
    <<TRUE,  LatCarState(12 * S, 0, TRUE),     8 * S,  0>>,
    <<TRUE,  LatCarState(0, 0, FALSE),         2 * S,  0>>,
    <<FALSE, LatCarState(5 * S, 0, FALSE),     2 * S,  0>> }

\* LatControlPID(CP, CI): builds the PID core, whose constructor needs np
LatConstruct ==
  /\ lat = NoObj
  /\ lat_call.op = "none"
  /\ \E CP \in LatCarParams :
       /\ lat' = IF np_bound THEN Lat_init(CP) ELSE NoObj
       /\ exc' = IF np_bound THEN "none" ELSE "NameError"
       /\ lat_call' = [op |-> "init", updates |-> 0, since_reset |-> 0, CP |-> CP, ret |-> 0]
  /\ UNCHANGED <<np_bound, pid_vars, long_vars>>

\* one tick: LatControlPID.update(active, CS, CP, CI, VM, params, ...)
LatUpdate ==
  /\ lat.alive
  /\ lat_call.updates < MaxLatTicks
  /\ \E a \in LatArgs :
       LET r == Lat_update(lat, a[1], a[2], lat_call.CP, a[3], [angleOffsetDeg |-> a[4]])
       IN  /\ lat' = r.obj
           /\ lat_call' = [op |-> "update",
                            updates |-> lat_call.updates + 1,
                            since_reset |-> 0,
                            CP |-> lat_call.CP,
                            active |-> a[1], CS |-> a[2],
                            angle_steers_des_no_offset |-> a[3], angleOffsetDeg |-> a[4],
                            prev_ret |-> lat_call.ret,
                            after_inactive |->
                              (lat_call.op = "update" /\ ~lat_call.pid_log.active),
                            fresh |-> (lat.pid = PID_reset(lat.pid)),
                            i_before |-> lat.pid.i,
                            last_read |-> r.last_read,
                            angle_steers_des |-> r.angle_steers_des,
                            pid_log |-> r.pid_log,
                            ret |-> r.ret]
  /\ exc' = "none"
  /\ UNCHANGED <<np_bound, pid_vars, long_vars>>

\* LatControlPID.reset(), called on its own between ticks
LatReset ==
  /\ lat.alive
  /\ lat' = Lat_reset(lat)
  /\ lat_call' = [op |-> "reset", updates |-> lat_call.updates, since_reset |-> 0,
                   CP |-> lat_call.CP, ret |-> lat_call.ret]
  /\ exc' = "none"
  /\ UNCHANGED <<np_bound, pid_vars, long_vars>>

InitLat ==
  /\ np_bound \in BOOLEAN
  /\ exc = "none"
  /\ pid = NoObj
  /\ pid_call = NoCall
  /\ trans_call = NoTrans
  /\ lc = NoObj
  /\ lc_call = NoCall
  /\ lat = NoObj
  /\ lat_call = NoCall

NextLat == LatConstruct \/ LatReset \/ LatUpdate

SpecLat == InitLat /\ [][NextLat]_vars

\* ------------------------------------------------------ claims on the PID core

\* C1: the value update returns, which is the value it stores in control, lies
\* in [neg_limit, pos_limit] as the limits stand at that call
C1_UpdateWithinLimits ==
  pid_call.op = "update" =>
    /\ pid.control = pid_call.ret
    /\ pid.neg_limit <= pid_call.ret
    /\ pid_call.ret <= pid.pos_limit

\* an update, after the limits were changed, whose unclamped sum is above pos_limit
C1_Witness ==
  /\ pid_call.op = "update"
  /\ pid_call.updates >= 2
  /\ pid_call.raw > pid.pos_limit
  /\ pid.pos_limit = S \div 2
  /\ pid_call.ret = pid.pos_limit

\* C8: reset() leaves p = i = f = 0, control = 0 and no error history, and the
\* first update after a reset yields p, i, f and output that are functions of
\* that update's arguments and the configuration alone
C8_ResetForgets ==
  /\ pid_call.op = "reset" =>
        /\ pid.p = 0 /\ pid.i = 0 /\ pid.f = 0
        /\ pid.control = 0 /\ pid.errors = <<>>
  /\ (pid_call.op = "update" /\ pid_call.since_reset = 1) =>
        LET error == apply_deadzone(pid_call.setpoint - pid_call.measurement, pid_call.deadzone)
            kp == interp(pid_call.speed, pid.k_p[1], pid.k_p[2])
            ki == interp(pid_call.speed, pid.k_i[1], pid.k_i[2])
            i  == (Mul(error, ki) * pid.i_rate * IFine) \div S
                  - (pid.i_unwind_rate * (0 - pid_call.last_output) * IFine) \div S
            f  == clip(Mul(pid_call.feedforward, pid.k_f), pid.neg_limit, pid.pos_limit)
        IN  /\ pid.p = Mul(error, kp)
            /\ pid.i = i - RoundDiv((DecayScale - pid.i_decay_factor) * i, DecayScale)
            /\ pid.f = f
            /\ pid_call.ret = clip(Mul(error, kp) + RoundDiv(i, IFine) + f,
                                   pid.neg_limit, pid.pos_limit)
            /\ pid.errors = <<error>>

\* the first update after a reset that followed earlier updates
C8_Witness ==
  /\ pid_call.op = "update"
  /\ pid_call.since_reset = 1
  /\ pid_call.updates = 3
  /\ pid.i # 0

\* C10: when |setpoint - measurement| <= deadzone, p is 0; otherwise the error
\* used is the difference moved towards 0 by deadzone, on its own side of 0
C10_Deadzone ==
  pid_call.op = "update" =>
    LET diff == pid_call.setpoint - pid_call.measurement
        dz   == pid_call.deadzone
        used == pid.errors[Len(pid.errors)]
    IN  /\ Abs(diff) <= dz => (pid.p = 0 /\ used = 0)
        /\ diff > dz  => (used = diff - dz /\ used > 0)
        /\ diff < -dz => (used = diff + dz /\ used < 0)

\* an update whose non-zero error sits on the lower edge of the band
C10_Witness ==
  /\ pid_call.op = "update"
  /\ pid_call.deadzone > 0
  /\ pid_call.setpoint - pid_call.measurement = -pid_call.deadzone
  /\ pid.p = 0

\* C11: with derivative period D >= 1, the derivative term is 0 on each of the
\* first D updates after construction or reset; on every later update it is
\* kd * (this error - the error of D updates before) / D; and the stored
\* history never holds more than D samples
C11_DerivativeLag ==
  /\ pid.alive => (pid.d_period >= 1 /\ Len(pid.errors) <= pid.d_period)
  /\ pid_call.op = "update" =>
        LET n  == Len(pid_call.hist)
            D  == pid.d_period
            kd == interp(pid_call.speed, pid.k_d[1], pid.k_d[2])
        IN  /\ n = pid_call.since_reset
            /\ n <= D => pid_call.d = 0
            /\ n > D  => pid_call.d = Mul((pid_call.hist[n] - pid_call.hist[n - D]) \div D, kd)

\* an update, after a reset, late enough for a lag of two updates: the error of
\* two updates before differs from the one just before, and the term is not 0
C11_Witness ==
  /\ pid_call.op = "update"
  /\ pid.d_period = 2
  /\ pid_call.updates > pid_call.since_reset
  /\ pid_call.since_reset = 3
  /\ pid_call.hist[1] # pid_call.hist[2]
  /\ pid_call.hist[3] = pid_call.hist[2]
  /\ pid_call.d # 0

\* C9: under sustained external saturation the integral stays within a bound
\* fixed by the arguments, and from some tick on it no longer changes
SatIBound ==
  Abs(Mul(apply_deadzone(pid_call.setpoint - pid_call.measurement, pid_call.deadzone),
          Max2(pid.k_i[2][1], pid.k_i[2][Len(pid.k_i[2])])))
  + Abs(Mul(apply_deadzone(pid_call.setpoint - pid_call.measurement, pid_call.deadzone),
            Max2(pid.k_p[2][1], pid.k_p[2][Len(pid.k_p[2])])))
  + Abs(Mul(pid_call.feedforward, pid.k_f))
  + Abs(pid_call.last_output)
  + S

SatSettled == SatNextPID.i = pid.i

C9_IntegralConverges == [](Abs(pid.i) <= SatIBound * IFine) /\ <>[]SatSettled

\* many ticks of saturation later: the integral has been pulled down and rests
C9_Witness ==
  /\ pid_call.op = "update"
  /\ pid_call.updates >= SatCount
  /\ pid_call.last_output < pid_call.raw - S
  /\ PID_i(pid) < -S
  /\ SatSettled

\* ------------------------------------------- claims on the two controllers

\* C2: with active false, long_control_state_trans returns Off, whatever the
\* current state and the other arguments
C2_InactiveReturnsOff ==
  (trans_call.called /\ ~trans_call.active) =>
    (trans_call.ret.exc = "none" /\ trans_call.ret.value = "off")

\* C3: the longitudinal controller starts in Off, and a tick with active true
\* that begins in Off ends in Tracking
C3_OffToTracking ==
  /\ (lc_call.op = "init" /\ lc.alive) => lc.long_control_state = "off"
  /\ (lc_call.op = "update" /\ lc_call.state_before = "off" /\ lc_call.active) =>
        lc.long_control_state = "pid"

\* C4: with active true, long_control_state_trans returns the next state along
\* the edges Off->Tracking, Tracking->Stopping iff stopping, Stopping->Starting
\* iff starting, Starting->Stopping iff stopping, Starting->Tracking iff not
\* stopping and the last commanded accel >= startAccel
C4_ActiveEdges ==
  (trans_call.called /\ trans_call.active) =>
    LET a == trans_call
        stopping == trans_stopping_condition(a.CP, a.v_ego, a.v_target_future, a.v_target,
                                             a.brake_pressed, a.cruise_standstill)
        starting == trans_starting_condition(a.CP, a.v_target_future, a.v_target,
                                             a.cruise_standstill, a.radarState)
        from == a.long_control_state
    IN  /\ a.ret.exc = "none"
        /\ from = "off" => a.ret.value = "pid"
        /\ from = "pid" => a.ret.value = (IF stopping THEN "stopping" ELSE "pid")
        /\ from = "stopping" => a.ret.value = (IF starting THEN "starting" ELSE "stopping")
        /\ from = "starting" =>
              a.ret.value = (IF stopping THEN "stopping"
                             ELSE IF a.output_accel >= a.CP.startAccel THEN "pid"
                             ELSE "starting")

\* C5: with speed 0, cruise standstill, active, gas released and targets 0 on
\* every tick, the state is Stopping from the second tick on, and the commanded
\* accel there does not rise from tick to tick
C5_StandstillStops ==
  (lc_call.op = "update" /\ lc_call.stand_ticks >= 2) =>
    /\ lc.long_control_state = "stopping"
    /\ lc_call.exc = "none"
    /\ lc_call.ret <= lc_call.held_before

\* C6: on every tick the acceleration LongControl.update returns lies within
\* that tick's accel_limits
C6_ReturnWithinLimits ==
  lc_call.op = "update" =>
    /\ lc_call.exc = "none"
    /\ lc_call.accel_limits[1] <= lc_call.ret
    /\ lc_call.ret <= lc_call.accel_limits[2]

\* C12: on every tick with a full-length trajectory the feedforward accel is
\* the minimum of the two finite-difference estimates, scaled by a factor in
\* [1.0, 1.2] only when positive, then clamped into [-3.5, 2.0]; and a tick that
\* goes to Tracking runs the PID core with that value as its feedforward
C12_FeedforwardClamped ==
  (lc_call.op = "update" /\ Len(lc_call.long_plan.speeds) = CONTROL_N) =>
    LET plan   == lc_call.long_plan
        lo     == ntune_scc_get("longitudinalActuatorDelayLowerBound")
        up     == ntune_scc_get("longitudinalActuatorDelayUpperBound")
        lower  == (2 * (interp(lo, T_IDXS, plan.speeds) - plan.speeds[1]) * S) \div lo
                  - plan.accels[1]
        upper  == (2 * (interp(up, T_IDXS, plan.speeds) - plan.speeds[1]) * S) \div up
                  - plan.accels[1]
        least  == IF lower <= upper THEN lower ELSE upper
        factor == interp(lc_call.CS.vEgo, <<0, 3 * S>>, <<(12 * S) \div 10, S>>)
        ff     == IF least > 0 THEN Mul(least, factor) ELSE least
        t      == LC_targets(plan, lc_call.CS.vEgo)
    IN  /\ S <= factor /\ factor <= (12 * S) \div 10
        /\ t.a_target = clip(ff, -35 * (S \div 10), 2 * S)
        /\ -35 * (S \div 10) <= t.a_target /\ t.a_target <= 2 * S
        /\ (lc_call.state_before = "off" /\ lc_call.active /\ ~lc_call.CS.gasPressed) =>
              /\ lc_call.exc = "none"
              /\ lc.long_control_state = "pid"
              /\ lc.pid.f = clip(Mul(t.a_target, lc.pid.k_f),
                                 lc_call.accel_limits[1], lc_call.accel_limits[2])

\* C15: when the trajectory does not hold exactly CONTROL_N speeds, the tick
\* uses target speed 0, future target speed 0 and feedforward 0, and completes
\* with a command inside the accel limits
C15_MalformedDegrades ==
  (lc_call.op = "update" /\ Len(lc_call.long_plan.speeds) # CONTROL_N) =>
    LET t == LC_targets(lc_call.long_plan, lc_call.CS.vEgo)
    IN  /\ t.v_target = 0 /\ t.v_target_future = 0 /\ t.a_target = 0
        /\ lc_call.exc = "none"
        /\ lc_call.accel_limits[1] <= lc_call.ret
        /\ lc_call.ret <= lc_call.accel_limits[2]

\* C16: on a tick whose state after the transition is Off (active false), or
\* with gas pressed, the PID core is reset, v_pid is the current speed, the
\* command returned is 0 and 0 is stored as the last commanded accel
C16_OffOrGasResets ==
  (lc_call.op = "update" /\ (~lc_call.active \/ lc_call.CS.gasPressed)) =>
    /\ lc_call.exc = "none"
    /\ lc.pid.p = 0 /\ lc.pid.i = 0 /\ lc.pid.f = 0 /\ lc.pid.errors = <<>>
    /\ lc.v_pid = lc_call.CS.vEgo
    /\ lc_call.ret = 0
    /\ lc.last_output_accel = 0

\* C17: a tick that goes to Tracking on a vehicle without standstill hold, at
\* speed < 1.5, with the future target below 0.7 and below the current target,
\* runs the PID update with the integral term left as it was and commands an
\* accel <= 0
C17_OvershootFreezes ==
  (/\ lc_call.op = "update"
   /\ lc_call.state_before = "off" /\ lc_call.active /\ ~lc_call.CS.gasPressed
   /\ ~lc_call.CP.stoppingControl
   /\ lc_call.CS.vEgo < (15 * S) \div 10
   /\ Len(lc_call.long_plan.speeds) = CONTROL_N
   /\ lc_call.long_plan.speeds[CONTROL_N] < (7 * S) \div 10
   /\ lc_call.long_plan.speeds[CONTROL_N] < lc_call.long_plan.speeds[1]) =>
    /\ lc_call.exc = "none"
    /\ lc.long_control_state = "pid"
    /\ Len(lc.pid.errors) = 1
    /\ lc.pid.i = lc_call.i_before
    /\ lc_call.ret <= 0

\* C13: a lateral tick with speed < MIN_STEER_SPEED or active false returns
\* command 0, marks the diagnostic record inactive and leaves the PID core
\* reset (p = i = f = 0, no error history); the next active tick gives what a
\* newly built controller gives for the same arguments
C13_InactiveResets ==
  /\ (lat_call.op = "update" /\ (lat_call.CS.vEgo < MIN_STEER_SPEED \/ ~lat_call.active)) =>
        /\ lat_call.ret = 0
        /\ ~lat_call.pid_log.active
        /\ lat.pid.p = 0 /\ lat.pid.i = 0 /\ lat.pid.f = 0 /\ lat.pid.errors = <<>>
  /\ (lat_call.op = "update" /\ lat_call.pid_log.active /\ lat_call.after_inactive) =>
        LET new == Lat_update(Lat_init(lat_call.CP), lat_call.active, lat_call.CS, lat_call.CP,
                              lat_call.angle_steers_des_no_offset,
                              [angleOffsetDeg |-> lat_call.angleOffsetDeg])
        IN  /\ lat_call.ret = new.ret
            /\ lat_call.pid_log = new.pid_log
            /\ lat.pid = new.obj.pid

\* an inactive tick that found a non-zero integral in the PID core
C13_Witness ==
  /\ lat_call.op = "update"
  /\ lat_call.active /\ lat_call.CS.vEgo < MIN_STEER_SPEED
  /\ lat_call.i_before # 0
  /\ lat.pid.i = 0
  /\ lat_call.ret = 0

\* C14: on an active lateral tick at speed >= MIN_STEER_SPEED the PID limits
\* are +/- get_steer_max(speed) and the command's magnitude is at most that;
\* from a freshly reset PID core, with positive gains, angleOffset 0 and
\* feedforward 0, the command has the sign of (desired angle - measured angle)
C14_LimitAndSign ==
  (lat_call.op = "update" /\ lat_call.active /\ lat_call.CS.vEgo >= MIN_STEER_SPEED) =>
    LET steers_max == get_steer_max(lat_call.CP, lat_call.CS.vEgo)
        error == lat_call.angle_steers_des - lat_call.CS.steeringAngleDeg
        ff == Mul(get_steer_feedforward(lat_call.angle_steers_des_no_offset, lat_call.CS.vEgo),
                  lat_call.CP.kf)
    IN  /\ lat.pid.pos_limit = steers_max /\ lat.pid.neg_limit = -steers_max
        /\ Abs(lat_call.ret) <= steers_max
        /\ (/\ lat_call.fresh /\ lat_call.angleOffsetDeg = 0 /\ ff = 0
            /\ lat_call.CP.kpV[1] > 0 /\ lat_call.CP.kiV[1] > 0) =>
              /\ error > 0 => lat_call.ret > 0
              /\ error < 0 => lat_call.ret < 0
              /\ error = 0 => lat_call.ret = 0

\* a tick from a freshly reset core, without feedforward, whose proportional
\* term alone is beyond the speed-scaled limit: the command is that limit, on
\* the error's side of 0
C14_Witness ==
  /\ lat_call.op = "update" /\ lat_call.active
  /\ lat_call.updates >= 2
  /\ lat_call.fresh /\ lat_call.angleOffsetDeg = 0 /\ lat_call.CP.kf = 0
  /\ lat_call.angle_steers_des < lat_call.CS.steeringAngleDeg
  /\ get_steer_max(lat_call.CP, lat_call.CS.vEgo) < S
  /\ lat_call.pid_log.p < -get_steer_max(lat_call.CP, lat_call.CS.vEgo)
  /\ lat_call.ret = -get_steer_max(lat_call.CP, lat_call.CS.vEgo)

\* C18: a tick on which the stopping condition holds, after the engaging tick,
\* ends in Stopping; there the held accel is lowered by stoppingDecelRate *
\* DT_CTRL times a factor interpolated over (stopAccel, stopAccel/2, 0) ->
\* (0.3, 0.65, 1.2), until the vehicle is at standstill with the held accel
\* down at stopAccel, after which it only passes through the accel limits' clamp
C18_StoppingRamp ==
  (lc_call.op = "update" /\ lc_call.phase = "stop") =>
    LET CP      == lc_call.CP
        held    == lc_call.held_before
        factor  == interp(held, <<CP.stopAccel, CP.stopAccel \div 2, 0>>,
                          <<(3 * S) \div 10, (65 * S) \div 100, (12 * S) \div 10>>)
        lowered == held - Mul(Mul(CP.stoppingDecelRate, DT_CTRL), factor)
        arrived == lc_call.CS.standstill /\ held <= CP.stopAccel
    IN  /\ lc_call.exc = "none"
        /\ lc.long_control_state = "stopping"
        /\ lc.last_output_accel =
              clip(IF arrived THEN held ELSE lowered,
                   lc_call.accel_limits[1], lc_call.accel_limits[2])
        /\ lc_call.ret = lc.last_output_accel

\* C19: after every tick that ends in Stopping or Starting (the stopping ticks
\* of the drive and the first starting tick after them) the PID core is reset
\* (p = i = f = 0, no error history) and v_pid is the current speed
C19_ResetAfterStopStart ==
  (/\ lc_call.op = "update"
   /\ \/ lc.long_control_state \in {"stopping", "starting"}
      \/ lc_call.phase = "stop"
      \/ lc_call.phase = "go" /\ lc_call.go_ticks = 1) =>
    /\ lc_call.exc = "none"
    /\ lc.long_control_state \in {"stopping", "starting"}
    /\ lc.pid.p = 0 /\ lc.pid.i = 0 /\ lc.pid.f = 0 /\ lc.pid.errors = <<>>
    /\ lc.v_pid = lc_call.CS.vEgo

\* C20: on ticks with active true, gas released, the stopping condition false
\* and the starting condition true, coming from Stopping: the first ends in
\* Starting; each tick in Starting raises a held accel below startAccel by
\* startingAccelRate * DT_CTRL, whatever the accel limits; and the tick after
\* the held accel is >= startAccel ends in Tracking
C20_StartingEnds ==
  (lc_call.op = "update" /\ lc_call.phase = "go") =>
    LET CP   == lc_call.CP
        held == lc_call.held_before
        step == Mul(CP.startingAccelRate, DT_CTRL)
    IN  /\ lc_call.exc = "none"
        /\ step > 0
        /\ lc_call.go_ticks = 1 => lc.long_control_state = "starting"
        /\ (lc_call.go_ticks > 1 /\ lc_call.state_before = "starting") =>
              lc.long_control_state = (IF held >= CP.startAccel THEN "pid" ELSE "starting")
        /\ lc.long_control_state = "starting" =>
              lc.last_output_accel = (IF held < CP.startAccel THEN held + step ELSE held)

\* C7: on every active lateral tick, the value handed to CI.calc_last_outputs
\* for the PID core is the command returned by the tick before (0 at first)
C7_LastOutputFedBack ==
  (lat_call.op = "update" /\ lat_call.pid_log.active) =>
    lat_call.last_read = lat_call.prev_ret

====
